---------------------------- MODULE Spec2Model ----------------------------
(***************************************************************************)
(* The chat route handler of OllamaUI (app/api/chat/route.ts), in its two  *)
(* versions: the payload-addressed handler (src/src/app/api/chat/route.ts) *)
(* and the cookie-addressed handler (src/unnamed/part_000).                *)
(*                                                                         *)
(* A JavaScript string is a tuple of UTF-16 code units.  A code unit is    *)
(* written as the one-character string it is, or "U+XXXX" outside ASCII,   *)
(* so Len is String.prototype.length.                                      *)
(***************************************************************************)
EXTENDS Integers, Sequences, FiniteSets, TLC

(***************************************************************************)
(* Bounds of the model.                                                    *)
(***************************************************************************)
\* number of requests the client sends
MaxReq == 2
\* number of milliseconds the clock may advance
MaxTicks == 1
\* longest message given to the stream encoder on its own
MaxLen == 3

ReqIds == 1..MaxReq

(***************************************************************************)
(* JavaScript values.                                                      *)
(***************************************************************************)
Undefined == [t |-> "undefined"]
Null == [t |-> "null"]
Str(s) == [t |-> "string", v |-> s]
Num(n) == [t |-> "number", v |-> n]
Arr(a) == [t |-> "array", v |-> a]
Obj(f) == [t |-> "object", v |-> f]

\* ToBoolean, as `||`, `&&` and `if` apply it
Truthy(x) ==
  CASE x.t = "undefined" -> FALSE
    [] x.t = "null" -> FALSE
    [] x.t = "string" -> x.v # <<>>
    [] x.t = "number" -> x.v # 0
    [] OTHER -> TRUE

\* x?.f : undefined when x is null or undefined, or has no such property
Field(x, f) ==
  IF x.t = "object" /\ f \in DOMAIN x.v THEN x.v[f] ELSE Undefined

\* x?.[0]
First(x) ==
  IF x.t \in {"array", "string"} /\ Len(x.v) > 0
  THEN (IF x.t = "array" THEN x.v[1] ELSE Str(<<x.v[1]>>))
  ELSE Undefined

\* x.length
Length(x) == IF x.t \in {"array", "string"} THEN Num(Len(x.v)) ELSE Undefined

(***************************************************************************)
(* Strings.                                                                *)
(***************************************************************************)
Digits == <<"0", "1", "2", "3", "4", "5", "6", "7", "8", "9">>

RECURSIVE ToDecimal(_)
\* Number.prototype.toString of a non-negative integer
ToDecimal(n) ==
  IF n < 10 THEN <<Digits[n + 1]>>
  ELSE ToDecimal(n \div 10) \o <<Digits[(n % 10) + 1]>>

\* n as decimal digits, left-padded with zeros to width w
Pad(n, w) ==
  LET d == ToDecimal(n)
  IN  [i \in 1..(IF Len(d) < w THEN w - Len(d) ELSE 0) |-> "0"] \o d

\* String.prototype.startsWith
StartsWith(s, p) == Len(p) <= Len(s) /\ SubSeq(s, 1, Len(p)) = p

\* whether p occurs in s at position i
OccursAt(s, p, i) == i + Len(p) - 1 <= Len(s) /\ SubSeq(s, i, i + Len(p) - 1) = p

\* String.prototype.includes
Includes(s, p) == \E i \in 1..(Len(s) + 1) : OccursAt(s, p, i)

RECURSIVE Concat(_)
\* the concatenation of a sequence of strings
Concat(ss) ==
  IF Len(ss) = 0 THEN <<>>
  ELSE IF Len(ss) = 1 THEN ss[1]
  ELSE LET h == Len(ss) \div 2
       IN  Concat(SubSeq(ss, 1, h)) \o Concat(SubSeq(ss, h + 1, Len(ss)))

\* the least element of a non-empty set of numbers
Least(S) == CHOOSE i \in S : \A j \in S : i <= j

RECURSIVE SplitAt(_, _, _)
\* the pieces of s from position i on, cut at the positions in cuts
SplitAt(s, i, cuts) ==
  IF cuts = {} THEN <<SubSeq(s, i, Len(s))>>
  ELSE LET j == Least(cuts)
       IN  <<SubSeq(s, i, j - 1)>> \o SplitAt(s, j + 1, cuts \ {j})

\* String.prototype.split("\n")
SplitLines(s) == SplitAt(s, 1, { i \in 1..Len(s) : s[i] = "\n" })

\* String(x), as a template literal's ${x} applies it
StringOf(x) ==
  CASE x.t = "undefined" -> <<"u", "n", "d", "e", "f", "i", "n", "e", "d">>
    [] x.t = "null" -> <<"n", "u", "l", "l">>
    [] x.t = "string" -> x.v
    [] x.t = "number" -> ToDecimal(x.v)
    [] OTHER -> <<"[", "o", "b", "j", "e", "c", "t", " ", "O", "b", "j", "e", "c", "t", "]">>

RECURSIVE JoinFrom(_, _)
JoinFrom(a, i) ==
  IF i > Len(a) THEN <<>>
  ELSE (IF i > 1 THEN <<",", " ">> ELSE <<>>)
       \o (IF a[i].t \in {"undefined", "null"} THEN <<>> ELSE StringOf(a[i]))
       \o JoinFrom(a, i + 1)

\* Array.prototype.join(", ")
Join(a) == JoinFrom(a, 1)

(***************************************************************************)
(* The helpers of route.ts.                                                *)
(***************************************************************************)
\* an inference that tests for gif before the other entries
guessExtFromContentType_GifFirst(ct) ==
  IF ~Truthy(ct) THEN <<"j", "p", "g">>
  ELSE IF Includes(ct.v, <<"g", "i", "f">>) THEN <<"g", "i", "f">>
  ELSE IF Includes(ct.v, <<"p", "n", "g">>) THEN <<"p", "n", "g">>
  ELSE IF Includes(ct.v, <<"w", "e", "b", "p">>) THEN <<"w", "e", "b", "p">>
  ELSE IF Includes(ct.v, <<"j", "p", "e", "g">>) THEN <<"j", "p", "g">>
  ELSE <<"j", "p", "g">>

\* guessExtFromContentType(ct): ct is null, undefined or a string
guessExtFromContentType(ct) ==
  IF ~Truthy(ct) THEN <<"j", "p", "g">>
  ELSE IF Includes(ct.v, <<"p", "n", "g">>) THEN <<"p", "n", "g">>
  ELSE IF Includes(ct.v, <<"w", "e", "b", "p">>) THEN <<"w", "e", "b", "p">>
  ELSE IF Includes(ct.v, <<"j", "p", "e", "g">>) THEN <<"j", "p", "g">>
  ELSE IF Includes(ct.v, <<"g", "i", "f">>) THEN <<"g", "i", "f">>
  ELSE <<"j", "p", "g">>

\* the base64 alphabet, in value order
B64Chars ==
  <<"A", "B", "C", "D", "E", "F", "G", "H", "I", "J", "K", "L", "M", "N", "O", "P", "Q", "R", "S", "T", "U", "V", "W", "X", "Y", "Z", "a", "b", "c", "d", "e", "f", "g", "h", "i", "j", "k", "l", "m", "n", "o", "p", "q", "r", "s", "t", "u", "v", "w", "x", "y", "z", "0", "1", "2", "3", "4", "5", "6", "7", "8", "9", "+", "/">>

\* the 6-bit value of a base64 character ("-" and "_" are the URL-safe forms
\* of "+" and "/", which Buffer.from accepts as well), or -1
B64Value(c) ==
  IF c = "-" THEN 62
  ELSE IF c = "_" THEN 63
  ELSE IF \E i \in 1..64 : B64Chars[i] = c
       THEN (CHOOSE i \in 1..64 : B64Chars[i] = c) - 1
       ELSE -1

RECURSIVE B64Sextets(_)
\* the values of the base64 characters of s; Buffer.from skips every other
\* character (padding, white space, anything else)
B64Sextets(s) ==
  IF s = <<>> THEN <<>>
  ELSE (IF B64Value(Head(s)) >= 0 THEN <<B64Value(Head(s))>> ELSE <<>>)
       \o B64Sextets(Tail(s))

RECURSIVE B64Bytes(_)
\* the bytes of a sequence of 6-bit values: 4 values give 3 bytes, a final
\* group of 3 gives 2, of 2 gives 1, and a single left-over value gives none
B64Bytes(v) ==
  IF Len(v) < 2 THEN <<>>
  ELSE LET b1 == v[1] * 4 + v[2] \div 16 IN
       IF Len(v) = 2 THEN <<b1>>
       ELSE LET b2 == (v[2] % 16) * 16 + v[3] \div 4 IN
            IF Len(v) = 3 THEN <<b1, b2>>
            ELSE <<b1, b2, (v[3] % 4) * 64 + v[4]>>
                 \o B64Bytes(SubSeq(v, 5, Len(v)))

\* Buffer.from(base64, "base64")
BufferFromBase64(s) == B64Bytes(B64Sextets(s))

\* the characters `.` of a regular expression does not match
LineTerminators == {"\n", "\r", "U+2028", "U+2029"}

NoLineTerminator(s) == \A i \in 1..Len(s) : s[i] \notin LineTerminators

\* the places where /^data:(.+?);base64,(.*)$/ can put `;base64,`
DataUrlCuts(dataUrl) ==
  { i \in 7..Len(dataUrl) :
      /\ OccursAt(dataUrl, <<";", "b", "a", "s", "e", "6", "4", ",">>, i)
      /\ NoLineTerminator(SubSeq(dataUrl, 6, i - 1))
      /\ NoLineTerminator(SubSeq(dataUrl, i + 8, Len(dataUrl))) }

\* parseDataUrl(dataUrl): the lazy (.+?) takes the first place that matches
parseDataUrl(dataUrl) ==
  IF ~StartsWith(dataUrl, <<"d", "a", "t", "a", ":">>) \/ DataUrlCuts(dataUrl) = {}
  THEN [threw |-> TRUE, message |-> <<"U", "n", "s", "u", "p", "p", "o", "r", "t", "e", "d", " ", "d", "a", "t", "a", " ", "U", "R", "L", " ", "f", "o", "r", "m", "a", "t", ".">>]
  ELSE LET i == CHOOSE j \in DataUrlCuts(dataUrl) :
                  \A k \in DataUrlCuts(dataUrl) : j <= k
       IN  [threw |-> FALSE,
            buffer |-> BufferFromBase64(SubSeq(dataUrl, i + 8, Len(dataUrl))),
            contentType |-> Str(SubSeq(dataUrl, 6, i - 1))]

\* a resolver that prefers the id of the first message
getChatId_MessageFirst(data, messages) ==
  LET a == Field(data, "chatId")
      b == Field(data, "chat_id")
      c == Field(First(messages), "id")
  IN  StringOf(IF Truthy(c) THEN c
               ELSE IF Truthy(a) THEN a
               ELSE IF Truthy(b) THEN b
               ELSE Str(<<"a", "n", "o", "n", "y", "m", "o", "u", "s">>))

\* getChatId(data, messages)
getChatId(data, messages) ==
  LET a == Field(data, "chatId")
      b == Field(data, "chat_id")
      c == Field(First(messages), "id")
  IN  StringOf(IF Truthy(a) THEN a
               ELSE IF Truthy(b) THEN b
               ELSE IF Truthy(c) THEN c
               ELSE Str(<<"a", "n", "o", "n", "y", "m", "o", "u", "s">>))

(***************************************************************************)
(* The clock.  Date.now() is a number of milliseconds since the epoch.     *)
(***************************************************************************)
DayMs == 24 * 60 * 60 * 1000

\* the civil date of a day number (days since 1970-01-01), as Date computes it
CivilFromDays(z0) ==
  LET z == z0 + 719468
      era == z \div 146097
      doe == z - era * 146097
      yoe == (doe - doe \div 1460 + doe \div 36524 - doe \div 146096) \div 365
      doy == doe - (365 * yoe + yoe \div 4 - yoe \div 100)
      mp == (5 * doy + 2) \div 153
      d == doy - (153 * mp + 2) \div 5 + 1
      m == IF mp < 10 THEN mp + 3 ELSE mp - 9
      y == yoe + era * 400 + (IF m <= 2 THEN 1 ELSE 0)
  IN  [year |-> y, month |-> m, day |-> d]

\* new Date(ms).toISOString().split("T")[0]
IsoDate(ms) ==
  LET c == CivilFromDays(ms \div DayMs)
  IN  Pad(c.year, 4) \o <<"-">> \o Pad(c.month, 2) \o <<"-">> \o Pad(c.day, 2)

\* maxAge of the session cookie, in seconds
maxAge == 60 * 60 * 24 * 90

\* the Set-Cookie header of a newly made folder id
SetCookieOf(folder) ==
  <<"c", "h", "a", "t", "F", "o", "l", "d", "e", "r", "I", "d", "=">> \o folder \o <<";", " ", "P", "a", "t", "h", "=", "/", ";", " ", "M", "a", "x", "-", "A", "g", "e", "=">> \o ToDecimal(maxAge)
    \o <<";", " ", "S", "a", "m", "e", "S", "i", "t", "e", "=", "L", "a", "x">>

\* a resolver that makes a new folder id for every request
resolveChatFolderId_AlwaysNew(existing, ms, shortRand) ==
  LET folder == IsoDate(ms) \o <<"-">> \o shortRand
  IN  [chatId |-> folder, setCookieHeader |-> Str(SetCookieOf(folder))]

\* resolveChatFolderId(), given the request's chatFolderId cookie, the clock
\* and the first block of the random UUID
resolveChatFolderId(existing, ms, shortRand) ==
  IF Truthy(existing)
  THEN [chatId |-> existing.v, setCookieHeader |-> Undefined]
  ELSE LET folder == IsoDate(ms) \o <<"-">> \o shortRand
       IN  [chatId |-> folder, setCookieHeader |-> Str(SetCookieOf(folder))]

(***************************************************************************)
(* Encodings.                                                              *)
(***************************************************************************)
\* the UTF-16 surrogate code units that occur in the model's strings
HighSurrogates == {"U+D83D"}
LowSurrogates == {"U+DD0D"}

\* whether JSON.stringify escapes the code unit at s[i]: the quote, the
\* backslash, the control characters and the surrogates that have no partner
JsonEscaped(s, i) ==
  \/ s[i] \in {"\"", "\\", "\n", "\r", "\t"}
  \/ s[i] \in HighSurrogates /\ ~(i < Len(s) /\ s[i + 1] \in LowSurrogates)
  \/ s[i] \in LowSurrogates /\ ~(i > 1 /\ s[i - 1] \in HighSurrogates)

\* JSON.stringify's escape of a code unit it escapes
JsonEscape(c) ==
  CASE c = "\"" -> <<"\\", "\"">>
    [] c = "\\" -> <<"\\", "\\">>
    [] c = "\n" -> <<"\\", "n">>
    [] c = "\r" -> <<"\\", "r">>
    [] c = "\t" -> <<"\\", "t">>
    [] c = "U+D83D" -> <<"\\", "u", "d", "8", "3", "d">>
    [] c = "U+DD0D" -> <<"\\", "u", "d", "d", "0", "d">>

RECURSIVE JsonQuoteFrom(_, _, _)
\* s from position i on, with the code units at the positions in esc escaped
JsonQuoteFrom(s, i, esc) ==
  IF esc = {} THEN SubSeq(s, i, Len(s))
  ELSE LET j == Least(esc)
       IN  SubSeq(s, i, j - 1) \o JsonEscape(s[j]) \o JsonQuoteFrom(s, j + 1, esc \ {j})

\* JSON.stringify(s) of a string
JsonStringifyString(s) ==
  <<"\"">> \o JsonQuoteFrom(s, 1, { i \in 1..Len(s) : JsonEscaped(s, i) }) \o <<"\"">>

\* the printable ASCII characters, from code 32 (space) to code 126 (~)
Ascii ==
  <<" ", "!", "\"", "#", "$", "%", "&", "'", "(", ")", "*", "+", ",", "-", ".", "/", "0", "1", "2", "3", "4", "5", "6", "7", "8", "9", ":", ";", "<", "=", ">", "?", "@", "A", "B", "C", "D", "E", "F", "G", "H", "I", "J", "K", "L", "M", "N", "O", "P", "Q", "R", "S", "T", "U", "V", "W", "X", "Y", "Z", "[", "\\", "]", "^", "_", "U+0060", "a", "b", "c", "d", "e", "f", "g", "h", "i", "j", "k", "l", "m", "n", "o", "p", "q", "r", "s", "t", "u", "v", "w", "x", "y", "z", "{", "|", "}", "~">>

CodeOf(c) == 31 + (CHOOSE i \in 1..Len(Ascii) : Ascii[i] = c)

HexDigits == <<"0", "1", "2", "3", "4", "5", "6", "7", "8", "9", "A", "B", "C", "D", "E", "F">>

\* the characters encodeURIComponent leaves as they are
UriUnreserved ==
  { Ascii[i] : i \in 1..Len(Ascii) } \ 
  { " ", "\"", "#", "$", "%", "&", "+", ",", "/", ":", ";", "<", "=", ">",
    "?", "@", "[", "\\", "]", "^", "U+0060", "{", "|", "}" }

\* encodeURIComponent(s) of an ASCII string
encodeURIComponent(s) ==
  Concat([i \in 1..Len(s) |->
            IF s[i] \in UriUnreserved THEN <<s[i]>>
            ELSE <<"%", HexDigits[CodeOf(s[i]) \div 16 + 1],
                        HexDigits[(CodeOf(s[i]) % 16) + 1]>>])

(***************************************************************************)
(* The messages.                                                           *)
(***************************************************************************)
\* process.env.YOLO_SERVICE, the configured address of the detection service
YOLO == Str(<<"y", "o", "l", "o", ":", "8", "0", "8", "0">>)

PromptMessage == <<"P", "l", "e", "a", "s", "e", " ", "p", "r", "o", "v", "i", "d", "e", " ", "a", "n", " ", "i", "m", "a", "g", "e", " ", "f", "o", "r", " ", "o", "b", "j", "e", "c", "t", " ", "d", "e", "t", "e", "c", "t", "i", "o", "n", ".">>

\* an Error with its message, as the catch block reads it
Error(msg) == [isError |-> TRUE, message |-> msg]

\* an error report without the hint
ErrorReport_NoHint(error) ==
  <<"U+274C", " ", "*", "*", "O", "b", "j", "e", "c", "t", " ", "D", "e", "t", "e", "c", "t", "i", "o", "n", " ", "E", "r", "r", "o", "r", "*", "*", "\n", "\n", "S", "o", "r", "r", "y", ",", " ", "I", " ", "e", "n", "c", "o", "u", "n", "t", "e", "r", "e", "d", " ", "a", "n", " ", "e", "r", "r", "o", "r", " ", "w", "h", "i", "l", "e", " ", "p", "r", "o", "c", "e", "s", "s", "i", "n", "g", " ", "y", "o", "u", "r", " ", "i", "m", "a", "g", "e", ":", " ">>
    \o (IF error.isError THEN error.message ELSE <<"U", "n", "k", "n", "o", "w", "n", " ", "e", "r", "r", "o", "r">>)

\* the message of the catch block
ErrorReport(error) ==
  <<"U+274C", " ", "*", "*", "O", "b", "j", "e", "c", "t", " ", "D", "e", "t", "e", "c", "t", "i", "o", "n", " ", "E", "r", "r", "o", "r", "*", "*", "\n", "\n", "S", "o", "r", "r", "y", ",", " ", "I", " ", "e", "n", "c", "o", "u", "n", "t", "e", "r", "e", "d", " ", "a", "n", " ", "e", "r", "r", "o", "r", " ", "w", "h", "i", "l", "e", " ", "p", "r", "o", "c", "e", "s", "s", "i", "n", "g", " ", "y", "o", "u", "r", " ", "i", "m", "a", "g", "e", ":", " ">>
    \o (IF error.isError THEN error.message ELSE <<"U", "n", "k", "n", "o", "w", "n", " ", "e", "r", "r", "o", "r">>)
    \o <<"\n", "\n", "P", "l", "e", "a", "s", "e", " ", "m", "a", "k", "e", " ", "s", "u", "r", "e", " ", "t", "h", "e", " ", "o", "b", "j", "e", "c", "t", " ", "d", "e", "t", "e", "c", "t", "i", "o", "n", " ", "s", "e", "r", "v", "i", "c", "e", " ", "i", "s", " ", "r", "e", "a", "c", "h", "a", "b", "l", "e", " ", "a", "t", " ", "h", "t", "t", "p", ":", "/", "/">>
    \o StringOf(YOLO) \o <<".">>

\* the template of the success message, evaluated left to right; reading a
\* property of null or undefined, or calling a join that is no function,
\* throws a TypeError (the messages are V8's)
SuccessReport(predictionResult) ==
  LET count == Field(predictionResult, "detection_count")
      labels == Field(predictionResult, "labels")
      uid == Field(predictionResult, "prediction_uid")
  IN  IF predictionResult.t \in {"null", "undefined"}
      THEN [threw |-> TRUE,
            error |-> Error(<<"C", "a", "n", "n", "o", "t", " ", "r", "e", "a", "d", " ", "p", "r", "o", "p", "e", "r", "t", "i", "e", "s", " ", "o", "f", " ">>
                            \o StringOf(predictionResult)
                            \o <<" ", "(", "r", "e", "a", "d", "i", "n", "g", " ", "'", "d", "e", "t", "e", "c", "t", "i", "o", "n", "_", "c", "o", "u", "n", "t", "'", ")">>)]
      ELSE IF labels.t \in {"null", "undefined"}
      THEN [threw |-> TRUE,
            error |-> Error(<<"C", "a", "n", "n", "o", "t", " ", "r", "e", "a", "d", " ", "p", "r", "o", "p", "e", "r", "t", "i", "e", "s", " ", "o", "f", " ">> \o StringOf(labels)
                            \o <<" ", "(", "r", "e", "a", "d", "i", "n", "g", " ", "'", "j", "o", "i", "n", "'", ")">>)]
      ELSE IF labels.t # "array"
      THEN [threw |-> TRUE,
            error |-> Error(<<"p", "r", "e", "d", "i", "c", "t", "i", "o", "n", "R", "e", "s", "u", "l", "t", ".", "l", "a", "b", "e", "l", "s", ".", "j", "o", "i", "n", " ", "i", "s", " ", "n", "o", "t", " ", "a", " ", "f", "u", "n", "c", "t", "i", "o", "n">>)]
      ELSE [threw |-> FALSE,
            message |->
              <<"U+D83D", "U+DD0D", " ", "*", "*", "O", "b", "j", "e", "c", "t", " ", "D", "e", "t", "e", "c", "t", "i", "o", "n", " ", "R", "e", "s", "u", "l", "t", "s", "*", "*", "\n", "\n", "*", "*", "D", "e", "t", "e", "c", "t", "i", "o", "n", " ", "C", "o", "u", "n", "t", ":", "*", "*", " ">>
              \o StringOf(count)
              \o <<"\n", "*", "*", "D", "e", "t", "e", "c", "t", "e", "d", " ", "O", "b", "j", "e", "c", "t", "s", ":", "*", "*", " ">> \o Join(labels.v)
              \o <<"\n", "*", "*", "P", "r", "e", "d", "i", "c", "t", "i", "o", "n", " ", "I", "D", ":", "*", "*", " ">> \o StringOf(uid)
              \o <<"\n", "\n", "I", "'", "v", "e", " ", "a", "n", "a", "l", "y", "z", "e", "d", " ", "y", "o", "u", "r", " ", "i", "m", "a", "g", "e", " ", "a", "n", "d", " ", "d", "e", "t", "e", "c", "t", "e", "d", " ">>
              \o StringOf(count)
              \o <<" ", "o", "b", "j", "e", "c", "t", "(", "s", ")", ".", " ", "T", "h", "e", " ", "d", "e", "t", "e", "c", "t", "e", "d", " ", "o", "b", "j", "e", "c", "t", "s", " ", "i", "n", "c", "l", "u", "d", "e", ":", " ">>
              \o Join(labels.v) \o <<".">>]

(***************************************************************************)
(* The stream encoder: start(controller) of the ReadableStream.            *)
(***************************************************************************)
promptTokens == 10

\* an encoder that does not give the lines their line breaks back
LineContent_Bare(lines, i) == lines[i]

\* the content of line i of the message: every line but the last gets its
\* line break back
LineContent(lines, i) == IF i < Len(lines) THEN lines[i] \o <<"\n">> ELSE lines[i]

\* the 0: frame of one content string
ContentFrame(content) == <<"0", ":">> \o JsonStringifyString(content) \o <<"\n">>

\* a usage that counts the lines of the message
UsageJson_Lines(message) ==
  <<"{", "\"", "p", "r", "o", "m", "p", "t", "T", "o", "k", "e", "n", "s", "\"", ":">> \o ToDecimal(promptTokens)
    \o <<",", "\"", "c", "o", "m", "p", "l", "e", "t", "i", "o", "n", "T", "o", "k", "e", "n", "s", "\"", ":">> \o ToDecimal(Len(SplitLines(message))) \o <<"}">>

\* JSON.stringify of the usage object
UsageJson(message) ==
  <<"{", "\"", "p", "r", "o", "m", "p", "t", "T", "o", "k", "e", "n", "s", "\"", ":">> \o ToDecimal(promptTokens)
    \o <<",", "\"", "c", "o", "m", "p", "l", "e", "t", "i", "o", "n", "T", "o", "k", "e", "n", "s", "\"", ":">> \o ToDecimal(Len(message)) \o <<"}">>

\* the e: frame
FinishFrame(message) ==
  <<"e", ":", "{", "\"", "f", "i", "n", "i", "s", "h", "R", "e", "a", "s", "o", "n", "\"", ":", "\"", "s", "t", "o", "p", "\"", ",", "\"", "u", "s", "a", "g", "e", "\"", ":">> \o UsageJson(message)
    \o <<",", "\"", "i", "s", "C", "o", "n", "t", "i", "n", "u", "e", "d", "\"", ":", "f", "a", "l", "s", "e", "}">> \o <<"\n">>

\* the d: frame
DoneFrame(message) ==
  <<"d", ":", "{", "\"", "f", "i", "n", "i", "s", "h", "R", "e", "a", "s", "o", "n", "\"", ":", "\"", "s", "t", "o", "p", "\"", ",", "\"", "u", "s", "a", "g", "e", "\"", ":">> \o UsageJson(message)
    \o <<"}">> \o <<"\n">>

\* an encoder that ends the stream with the d: frame before the e: frame
StreamChunks_DoneFirst(message) ==
  LET lines == SplitLines(message)
  IN  [i \in 1..Len(lines) |-> ContentFrame(LineContent(lines, i))]
      \o <<DoneFrame(message), FinishFrame(message)>>

\* the chunks start(controller) enqueues, in order, before it closes the
\* stream
StreamChunks(message) ==
  LET lines == SplitLines(message)
  IN  [i \in 1..Len(lines) |-> ContentFrame(LineContent(lines, i))]
      \o <<FinishFrame(message), DoneFrame(message)>>

(***************************************************************************)
(* The state.                                                              *)
(***************************************************************************)
VARIABLES
  concurrent, \* whether the client sends a request while another is in flight
  variant,    \* which handler is deployed: "payload" (src/src/app/api/chat/route.ts) or "cookie" (src/unnamed/part_000)
  now,        \* Date.now()
  jar,        \* the client's chatFolderId cookie
  reqs,       \* the requests: where POST stands, what it holds, what it returned
  bucket,     \* the objects of the S3 bucket, by key
  uploads,    \* the storage writes that succeeded: who wrote which key
  yoloCalls,  \* the calls the detection service has received
  sessions,   \* the session ids POST has resolved
  encIn,      \* a message given to the stream encoder on its own
  encOut,     \* the chunks the encoder made of it
  fnIn,       \* the arguments of a function of the handler called on its own
  fnOut       \* what that call returned, in a tuple, or <<>> before the call

vars == <<concurrent, variant, now, jar, reqs, bucket, uploads, yoloCalls, sessions, encIn, encOut, fnIn, fnOut>>

(***************************************************************************)
(* What the client and the services may send.                              *)
(***************************************************************************)
\* the chat id and the id of the first message the conversation's UI holds
ConvChatId == <<"c", "1">>
FirstMessageId == <<"m", "1">>

DataUrlPng == <<"d", "a", "t", "a", ":", "i", "m", "a", "g", "e", "/", "p", "n", "g", ";", "b", "a", "s", "e", "6", "4", ",", "Q", "U", "J", "D">>
DataUrlMalformed == <<"d", "a", "t", "a", ":", "i", "m", "a", "g", "e", "/", "p", "n", "g", ",", "Q", "U", "J", "D">>
HttpUrl == <<"h", "t", "t", "p", ":", "/", "/", "h", "/", "a", ".", "p", "n", "g">>
HttpsUrl == <<"h", "t", "t", "p", "s", ":", "/", "/", "h", "/", "b">>
FtpUrl == <<"f", "t", "p", ":", "/", "/", "h", "/", "c", ".", "p", "n", "g">>

\* the first element of data.images
ImageRefs ==
  { Str(DataUrlPng), Str(DataUrlMalformed), Str(HttpUrl), Str(HttpsUrl),
    Str(FtpUrl), Str(<<>>), Num(42), Null }

ImagesChoices == { Undefined, Arr(<<>>) } \cup { Arr(<<ref>>) : ref \in ImageRefs }

MessagesChoices ==
  { Undefined, Arr(<<>>), Arr(<<Null>>), Arr(<<Obj([id |-> Undefined])>>),
    Arr(<<Obj([id |-> Str(FirstMessageId)])>>), Str(<<"x">>) }

DataOf(chatId, chat_id, images) ==
  Obj([chatId |-> chatId, chat_id |-> chat_id, images |-> images])

BodyOf(messages, data) == [ok |-> TRUE, v |-> Obj([messages |-> messages, data |-> data])]

BaseMessages == Arr(<<Obj([id |-> Str(FirstMessageId)])>>)
BaseImages == Arr(<<Str(DataUrlPng)>>)

\* the request bodies: a body that is no JSON, the JSON null, and objects
\* that vary the messages, the session fields and the images in turn
AllBodies ==
  { [ok |-> FALSE, v |-> Undefined], [ok |-> TRUE, v |-> Null] }
  \cup { BodyOf(m, DataOf(Undefined, Undefined, BaseImages)) : m \in MessagesChoices }
  \cup { BodyOf(BaseMessages, d) : d \in { Undefined, Null } }
  \cup { BodyOf(BaseMessages, DataOf(a, b, BaseImages)) :
           a \in { Undefined, Str(ConvChatId) }, b \in { Undefined, Str(ConvChatId) } }
  \cup { BodyOf(BaseMessages, DataOf(Undefined, Undefined, i)) : i \in ImagesChoices }

\* the bodies of requests sent while another is in flight: no JSON, no
\* image, an inline image without and with a chat id, and a remote image
FewBodies ==
  { [ok |-> FALSE, v |-> Undefined],
    BodyOf(BaseMessages, Undefined),
    BodyOf(BaseMessages, DataOf(Undefined, Undefined, BaseImages)),
    BodyOf(BaseMessages, DataOf(Str(ConvChatId), Undefined, BaseImages)),
    BodyOf(BaseMessages, DataOf(Undefined, Undefined, Arr(<<Str(HttpUrl)>>))) }

Bodies == IF concurrent THEN FewBodies ELSE AllBodies

\* the first block of randomUUID()
Rands == { <<"0", "a", "1", "b", "2", "c", "3", "d">>, <<"f", "f", "f", "f", "f", "f", "f", "f">> }

\* what `await fetch(url)` of the image gives: a rejection, or a response
FetchOutcomes ==
  { [rejected |-> TRUE, ok |-> FALSE, status |-> 0, contentType |-> Null],
    [rejected |-> FALSE, ok |-> TRUE, status |-> 200, contentType |-> Null] }
  \cup (IF concurrent THEN {}
        ELSE { [rejected |-> FALSE, ok |-> FALSE, status |-> 404, contentType |-> Null],
               [rejected |-> FALSE, ok |-> TRUE, status |-> 200,
                contentType |-> Str(<<"i", "m", "a", "g", "e", "/", "j", "p", "e", "g">>)] })

\* what `await res.arrayBuffer()` gives
BodyOutcomes ==
  { [rejected |-> FALSE, bytes |-> <<255, 216>>] }
  \cup (IF concurrent THEN {} ELSE { [rejected |-> TRUE, bytes |-> <<>>] })

\* what `await s3.send(...)` gives: whether the write succeeded
PutOutcomes == BOOLEAN

\* what `await fetch(yoloUrl)` gives
YoloOutcomes ==
  { [rejected |-> FALSE, ok |-> FALSE, status |-> 500],
    [rejected |-> FALSE, ok |-> TRUE, status |-> 200] }
  \cup (IF concurrent THEN {} ELSE { [rejected |-> TRUE, ok |-> FALSE, status |-> 0] })

\* what `await predictionResponse.text()` gives
TextOutcomes ==
  { [rejected |-> FALSE, text |-> <<"o", "o", "p", "s">>] }
  \cup (IF concurrent THEN {} ELSE { [rejected |-> TRUE, text |-> <<>>] })

\* a detection result with its three fields
FullResult ==
  Obj([detection_count |-> Num(2),
       labels |-> Arr(<<Str(<<"c", "a", "t">>), Str(<<"d", "o", "g">>)>>),
       prediction_uid |-> Str(<<"a", "b", "c", "1", "2", "3">>)])

\* what `await predictionResponse.json()` gives
JsonOutcomes ==
  { [rejected |-> FALSE, value |-> FullResult] }
  \cup (IF concurrent THEN {}
        ELSE { [rejected |-> TRUE, value |-> Undefined],
               [rejected |-> FALSE, value |-> Null],
               [rejected |-> FALSE,
                value |-> Obj([detection_count |-> Num(2),
                               prediction_uid |-> Str(<<"a", "b", "c", "1", "2", "3">>)])] })

(***************************************************************************)
(* The initial state.                                                      *)
(***************************************************************************)
\* the clock starts one millisecond before the first midnight after the epoch
StartMs == DayMs - 1

IdleReq ==
  [pc |-> "idle",
   cookie |-> Undefined,
   chatId |-> Undefined,
   setCookieHeader |-> Undefined,
   hasImages |-> FALSE,
   imageUrl |-> Undefined,
   resContentType |-> Null,
   contentType |-> Null,
   buffer |-> <<>>,
   ts |-> 0,
   key |-> <<>>,
   status |-> 0,
   result |-> <<>>,
   caught |-> <<>>,
   thrown |-> <<>>,
   message |-> <<>>,
   stream |-> <<>>,
   closed |-> FALSE,
   headers |-> <<>>,
   fetches |-> 0,
   puts |-> 0,
   stored |-> FALSE,
   calls |-> 0]

\* the world before the first request
InitWorld ==
  /\ variant \in {"payload", "cookie"}
  /\ now = StartMs
  /\ jar \in (IF variant = "cookie" THEN {Undefined, Str(<<>>)} ELSE {Undefined})
  /\ reqs = [r \in ReqIds |-> IdleReq]
  /\ bucket = <<>>
  /\ uploads = {}
  /\ yoloCalls = {}
  /\ sessions = {}
  /\ encIn = <<>>
  /\ encOut = <<>>
  /\ fnIn = <<>>
  /\ fnOut = <<>>

\* the client sends each request after the answer to the one before
Init == concurrent = FALSE /\ InitWorld

\* the client sends requests while others are in flight
InitConc == concurrent = TRUE /\ InitWorld

(***************************************************************************)
(* POST, between its awaits.  Each operator gives the request as the code  *)
(* leaves it at its next await, or at its return or throw.                 *)
(***************************************************************************)
\* the headers of the Response
ResponseHeaders(setCookieHeader) ==
  LET base == ("Content-Type" :> <<"t", "e", "x", "t", "/", "p", "l", "a", "i", "n", ";", " ", "c", "h", "a", "r", "s", "e", "t", "=", "u", "t", "f", "-", "8">>)
                @@ ("X-Vercel-AI-Data-Stream" :> <<"v", "1">>)
  IN  IF variant = "cookie" /\ Truthy(setCookieHeader)
      THEN ("Set-Cookie" :> setCookieHeader.v) @@ base
      ELSE base

\* the end of POST: the stream is made of the message, start(controller)
\* runs at once, and the Response is returned
Respond(q, message) ==
  [q EXCEPT !.pc = "done",
            !.message = message,
            !.stream = StreamChunks(message),
            !.closed = TRUE,
            !.headers = ResponseHeaders(q.setCookieHeader)]

\* the catch block, and then the end of POST
Catch(q, error) == Respond([q EXCEPT !.caught = <<error>>], ErrorReport(error))

\* a throw outside the try block: POST rejects, and no Response is returned
Throw(q, error) == [q EXCEPT !.pc = "fault", !.thrown = <<error>>]

\* the key of the object, and s3.send(new PutObjectCommand(...)) up to its await
Upload(q, buffer, contentType, ms) ==
  LET ext == guessExtFromContentType(contentType)
      ts == ms
      key == q.chatId.v \o <<"/", "o", "r", "i", "g", "i", "n", "a", "l", "/">> \o ToDecimal(ts) \o <<".">> \o ext
  IN  [q EXCEPT !.pc = "awaitS3",
                !.buffer = buffer,
                !.contentType = contentType,
                !.ts = ts,
                !.key = key,
                !.puts = @ + 1]

\* a handler that fetches every reference that is no data URL
StartPipeline_FetchAny(q0, data, ms) ==
  LET imageUrl == First(Field(data, "images"))
      q == [q0 EXCEPT !.hasImages = TRUE, !.imageUrl = imageUrl]
  IN  IF imageUrl.t \in {"null", "undefined"}
      THEN Catch(q, Error(<<"C", "a", "n", "n", "o", "t", " ", "r", "e", "a", "d", " ", "p", "r", "o", "p", "e", "r", "t", "i", "e", "s", " ", "o", "f", " ">> \o StringOf(imageUrl)
                          \o <<" ", "(", "r", "e", "a", "d", "i", "n", "g", " ", "'", "s", "t", "a", "r", "t", "s", "W", "i", "t", "h", "'", ")">>))
      ELSE IF imageUrl.t # "string"
      THEN Catch(q, Error(<<"i", "m", "a", "g", "e", "U", "r", "l", ".", "s", "t", "a", "r", "t", "s", "W", "i", "t", "h", " ", "i", "s", " ", "n", "o", "t", " ", "a", " ", "f", "u", "n", "c", "t", "i", "o", "n">>))
      ELSE IF StartsWith(imageUrl.v, <<"d", "a", "t", "a", ":">>)
      THEN LET parsed == parseDataUrl(imageUrl.v)
           IN  IF parsed.threw THEN Catch(q, Error(parsed.message))
               ELSE Upload(q, parsed.buffer, parsed.contentType, ms)
      ELSE [q EXCEPT !.pc = "awaitFetch", !.fetches = @ + 1]

\* the try block from its start to its first await
StartPipeline(q0, data, ms) ==
  LET imageUrl == First(Field(data, "images"))
      q == [q0 EXCEPT !.hasImages = TRUE, !.imageUrl = imageUrl]
  IN  IF imageUrl.t \in {"null", "undefined"}
      THEN Catch(q, Error(<<"C", "a", "n", "n", "o", "t", " ", "r", "e", "a", "d", " ", "p", "r", "o", "p", "e", "r", "t", "i", "e", "s", " ", "o", "f", " ">> \o StringOf(imageUrl)
                          \o <<" ", "(", "r", "e", "a", "d", "i", "n", "g", " ", "'", "s", "t", "a", "r", "t", "s", "W", "i", "t", "h", "'", ")">>))
      ELSE IF imageUrl.t # "string"
      THEN Catch(q, Error(<<"i", "m", "a", "g", "e", "U", "r", "l", ".", "s", "t", "a", "r", "t", "s", "W", "i", "t", "h", " ", "i", "s", " ", "n", "o", "t", " ", "a", " ", "f", "u", "n", "c", "t", "i", "o", "n">>))
      ELSE IF StartsWith(imageUrl.v, <<"d", "a", "t", "a", ":">>)
      THEN LET parsed == parseDataUrl(imageUrl.v)
           IN  IF parsed.threw THEN Catch(q, Error(parsed.message))
               ELSE Upload(q, parsed.buffer, parsed.contentType, ms)
      ELSE IF StartsWith(imageUrl.v, <<"h", "t", "t", "p", ":", "/", "/">>) \/ StartsWith(imageUrl.v, <<"h", "t", "t", "p", "s", ":", "/", "/">>)
      THEN [q EXCEPT !.pc = "awaitFetch", !.fetches = @ + 1]
      ELSE Catch(q, Error(<<"U", "n", "s", "u", "p", "p", "o", "r", "t", "e", "d", " ", "i", "m", "a", "g", "e", " ", "s", "o", "u", "r", "c", "e", ".", " ", "U", "s", "e", " ", "a", " ", "d", "a", "t", "a", " ", "U", "R", "L", " ", "o", "r", " ", "h", "t", "t", "p", "(", "s", ")", " ", "U", "R", "L", ".">>))

\* a guard that does not look at the length of data.images
HasImages_AnyImages(data) == Truthy(Field(data, "images"))

\* data?.images && data.images.length > 0
HasImages(data) ==
  LET images == Field(data, "images")
  IN  Truthy(images) /\ Length(images).t = "number" /\ Length(images).v > 0

\* POST of src/src/app/api/chat/route.ts, after req.json() gave v
PostPayload(q, v, ms) ==
  LET messages == Field(v, "messages")
      data == Field(v, "data")
      q1 == [q EXCEPT !.message = PromptMessage]
  IN  IF Truthy(messages) /\ messages.t # "array"
      THEN Throw(q, Error(<<"(", "m", "e", "s", "s", "a", "g", "e", "s", " ", "|", "|", " ", "[", "]", ")", ".", "m", "a", "p", " ", "i", "s", " ", "n", "o", "t", " ", "a", " ", "f", "u", "n", "c", "t", "i", "o", "n">>))
      ELSE IF HasImages(data)
      THEN StartPipeline([q1 EXCEPT !.chatId = Str(getChatId(data, messages))], data, ms)
      ELSE Respond(q1, PromptMessage)

\* POST of src/unnamed/part_000, after req.json() gave v
PostCookie(q, v, ms, shortRand) ==
  LET data == IF Field(v, "data").t = "undefined" THEN Obj(<<>>) ELSE Field(v, "data")
      resolved == resolveChatFolderId(q.cookie, ms, shortRand)
      q1 == [q EXCEPT !.chatId = Str(resolved.chatId),
                      !.setCookieHeader = resolved.setCookieHeader,
                      !.message = PromptMessage]
  IN  IF HasImages(data) THEN StartPipeline(q1, data, ms)
      ELSE Respond(q1, PromptMessage)

\* POST from its start to its first await after req.json(), or to its end
POST(q, body, ms, shortRand) ==
  IF ~body.ok
  THEN Throw(q, Error(<<"U", "n", "e", "x", "p", "e", "c", "t", "e", "d", " ", "e", "n", "d", " ", "o", "f", " ", "J", "S", "O", "N", " ", "i", "n", "p", "u", "t">>))
  ELSE IF body.v.t \in {"null", "undefined"}
  THEN Throw(q, Error(<<"C", "a", "n", "n", "o", "t", " ", "d", "e", "s", "t", "r", "u", "c", "t", "u", "r", "e", " ", "p", "r", "o", "p", "e", "r", "t", "y", " ", "'", "m", "e", "s", "s", "a", "g", "e", "s", "'", " ", "o", "f", " ", "'", "(", "i", "n", "t", "e", "r", "m", "e", "d", "i", "a", "t", "e", " ", "v", "a", "l", "u", "e", ")", "'", " ", "a", "s", " ", "i", "t", " ", "i", "s", " ", "n", "u", "l", "l", ".">>))
  ELSE IF variant = "payload" THEN PostPayload(q, body.v, ms)
  ELSE PostCookie(q, body.v, ms, shortRand)

\* fetchAsBuffer after `await fetch(url)`
AfterFetch(q, o) ==
  IF o.rejected THEN Catch(q, Error(<<"f", "e", "t", "c", "h", " ", "f", "a", "i", "l", "e", "d">>))
  ELSE IF ~o.ok
  THEN Catch(q, Error(<<"F", "a", "i", "l", "e", "d", " ", "t", "o", " ", "f", "e", "t", "c", "h", " ", "i", "m", "a", "g", "e", ":", " ">> \o ToDecimal(o.status)))
  ELSE [q EXCEPT !.pc = "awaitBody", !.resContentType = o.contentType]

\* fetchAsBuffer after `await res.arrayBuffer()`, and POST up to s3.send
AfterBody(q, o, ms) ==
  IF o.rejected THEN Catch(q, Error(<<"t", "e", "r", "m", "i", "n", "a", "t", "e", "d">>))
  ELSE Upload(q, o.bytes, q.resContentType, ms)

\* the URL of the detection call
YoloUrl(key, chatId) ==
  <<"h", "t", "t", "p", ":", "/", "/">> \o StringOf(YOLO) \o <<"/", "p", "r", "e", "d", "i", "c", "t", "?", "i", "m", "g", "=">> \o encodeURIComponent(key)
    \o <<"&", "c", "h", "a", "t", "_", "i", "d", "=">> \o encodeURIComponent(chatId)

\* a handler that sends the storage write a second time when the first
\* has failed
AfterPut_SendAgain(q, ok) ==
  IF ~ok /\ q.puts < 2 THEN [q EXCEPT !.puts = @ + 1]
  ELSE IF ~ok THEN Catch(q, Error(<<"A", "c", "c", "e", "s", "s", " ", "D", "e", "n", "i", "e", "d">>))
  ELSE [q EXCEPT !.pc = "awaitYolo", !.stored = TRUE, !.calls = @ + 1]

\* a handler that calls the detection service whether or not the storage
\* write succeeded
AfterPut_CallRegardless(q, ok) ==
  [q EXCEPT !.pc = "awaitYolo", !.stored = ok, !.calls = @ + 1]

\* POST after `await s3.send(...)`
AfterPut(q, ok) ==
  IF ~ok THEN Catch(q, Error(<<"A", "c", "c", "e", "s", "s", " ", "D", "e", "n", "i", "e", "d">>))
  ELSE [q EXCEPT !.pc = "awaitYolo", !.stored = TRUE, !.calls = @ + 1]

\* POST after `await fetch(yoloUrl, { method: "POST" })`
AfterPredict(q, o) ==
  IF o.rejected THEN Catch(q, Error(<<"f", "e", "t", "c", "h", " ", "f", "a", "i", "l", "e", "d">>))
  ELSE IF ~o.ok THEN [q EXCEPT !.pc = "awaitText", !.status = o.status]
  ELSE [q EXCEPT !.pc = "awaitJson", !.status = o.status]

\* POST after `await predictionResponse.text().catch(() => "")`
AfterText(q, o) ==
  LET text == IF o.rejected THEN <<>> ELSE o.text
  IN  Catch(q, Error(<<"P", "r", "e", "d", "i", "c", "t", "i", "o", "n", " ", "A", "P", "I", " ", "e", "r", "r", "o", "r", ":", " ">> \o ToDecimal(q.status) \o <<" ">> \o text))

\* a handler that answers a result it cannot report with the head of the
\* success report
AfterJson_Partial(q, o) ==
  IF o.rejected THEN Catch(q, Error(<<"U", "n", "e", "x", "p", "e", "c", "t", "e", "d", " ", "t", "o", "k", "e", "n", " ", "'", "<", "'", ",", " ", "\"", "<", "h", "t", "m", "l", ">", "\"", " ", "i", "s", " ", "n", "o", "t", " ", "v", "a", "l", "i", "d", " ", "J", "S", "O", "N">>))
  ELSE LET report == SuccessReport(o.value)
           q1 == [q EXCEPT !.result = <<o.value>>]
       IN  IF report.threw
           THEN Respond(q1, <<"U+D83D", "U+DD0D", " ", "*", "*", "O", "b", "j", "e", "c", "t", " ", "D", "e", "t", "e", "c", "t", "i", "o", "n", " ", "R", "e", "s", "u", "l", "t", "s", "*", "*", "\n", "\n">> \o report.error.message)
           ELSE Respond(q1, report.message)

\* POST after `await predictionResponse.json()`
AfterJson(q, o) ==
  IF o.rejected THEN Catch(q, Error(<<"U", "n", "e", "x", "p", "e", "c", "t", "e", "d", " ", "t", "o", "k", "e", "n", " ", "'", "<", "'", ",", " ", "\"", "<", "h", "t", "m", "l", ">", "\"", " ", "i", "s", " ", "n", "o", "t", " ", "v", "a", "l", "i", "d", " ", "J", "S", "O", "N">>))
  ELSE LET report == SuccessReport(o.value)
           q1 == [q EXCEPT !.result = <<o.value>>]
       IN  IF report.threw THEN Catch(q1, report.error)
           ELSE Respond(q1, report.message)

\* the value of the chatFolderId cookie a Set-Cookie header sets
CookieValue(header) ==
  LET from == Len(<<"c", "h", "a", "t", "F", "o", "l", "d", "e", "r", "I", "d", "=">>) + 1
      to == CHOOSE j \in from..Len(header) :
              header[j] = ";" /\ \A k \in from..(j - 1) : header[k] # ";"
  IN  SubSeq(header, from, to - 1)

(***************************************************************************)
(* The actions.                                                            *)
(***************************************************************************)
\* the session ids, with the one request q has resolved by now
Resolved(q) == IF q.chatId.t = "string" THEN sessions \cup {q.chatId.v} ELSE sessions

\* the client sends its next request, with the cookie it holds
Send(r) ==
  /\ reqs[r].pc = "idle"
  /\ \A s \in ReqIds : s < r => reqs[s].pc # "idle"
  /\ concurrent \/ \A s \in ReqIds : reqs[s].pc \in {"idle", "delivered", "failed"}
  /\ reqs' = [reqs EXCEPT ![r] = [@ EXCEPT !.pc = "sent", !.cookie = jar]]
  /\ UNCHANGED <<concurrent, variant, now, jar, bucket, uploads, yoloCalls, sessions, encIn, encOut, fnIn, fnOut>>

\* req.json() settles and POST runs to its next await
Receive(r) ==
  /\ reqs[r].pc = "sent"
  /\ \E body \in Bodies, shortRand \in Rands :
       LET q == POST(reqs[r], body, now, shortRand) IN
       /\ reqs' = [reqs EXCEPT ![r] = q]
       /\ sessions' = Resolved(q)
  /\ UNCHANGED <<concurrent, variant, now, jar, bucket, uploads, yoloCalls, encIn, encOut, fnIn, fnOut>>

\* the fetch of the image settles
FetchSettles(r) ==
  /\ reqs[r].pc = "awaitFetch"
  /\ \E o \in FetchOutcomes :
       reqs' = [reqs EXCEPT ![r] = AfterFetch(reqs[r], o)]
  /\ UNCHANGED <<concurrent, variant, now, jar, bucket, uploads, yoloCalls, sessions, encIn, encOut, fnIn, fnOut>>

\* the body of the image settles
BodySettles(r) ==
  /\ reqs[r].pc = "awaitBody"
  /\ \E o \in BodyOutcomes :
       reqs' = [reqs EXCEPT ![r] = AfterBody(reqs[r], o, now)]
  /\ UNCHANGED <<concurrent, variant, now, jar, bucket, uploads, yoloCalls, sessions, encIn, encOut, fnIn, fnOut>>

\* the object a PutObjectCommand of q writes
PutObject(q) ==
  [Body |-> q.buffer,
   ContentType |-> IF Truthy(q.contentType) THEN q.contentType.v ELSE <<"i", "m", "a", "g", "e", "/", "j", "p", "e", "g">>]

\* the storage write settles: on success the object is in the bucket, and
\* POST goes on to call the detection service
PutSettles(r) ==
  /\ reqs[r].pc = "awaitS3"
  /\ \E ok \in PutOutcomes :
       LET q == reqs[r]
           q1 == AfterPut(q, ok)
       IN
       /\ reqs' = [reqs EXCEPT ![r] = q1]
       /\ bucket' = IF ok THEN (q.key :> PutObject(q)) @@ bucket ELSE bucket
       /\ uploads' = IF ok THEN uploads \cup {[by |-> r, key |-> q.key]} ELSE uploads
       /\ yoloCalls' = IF q1.pc = "awaitYolo"
                       THEN yoloCalls \cup {[by |-> r, url |-> YoloUrl(q.key, q.chatId.v)]}
                       ELSE yoloCalls
  /\ UNCHANGED <<concurrent, variant, now, jar, sessions, encIn, encOut, fnIn, fnOut>>

\* the detection call settles
PredictSettles(r) ==
  /\ reqs[r].pc = "awaitYolo"
  /\ \E o \in YoloOutcomes :
       reqs' = [reqs EXCEPT ![r] = AfterPredict(reqs[r], o)]
  /\ UNCHANGED <<concurrent, variant, now, jar, bucket, uploads, yoloCalls, sessions, encIn, encOut, fnIn, fnOut>>

\* the text of a failed detection response settles
TextSettles(r) ==
  /\ reqs[r].pc = "awaitText"
  /\ \E o \in TextOutcomes :
       reqs' = [reqs EXCEPT ![r] = AfterText(reqs[r], o)]
  /\ UNCHANGED <<concurrent, variant, now, jar, bucket, uploads, yoloCalls, sessions, encIn, encOut, fnIn, fnOut>>

\* the JSON of a detection response settles
JsonSettles(r) ==
  /\ reqs[r].pc = "awaitJson"
  /\ \E o \in JsonOutcomes :
       reqs' = [reqs EXCEPT ![r] = AfterJson(reqs[r], o)]
  /\ UNCHANGED <<concurrent, variant, now, jar, bucket, uploads, yoloCalls, sessions, encIn, encOut, fnIn, fnOut>>

\* the Response reaches the client, which keeps the cookie it sets; the
\* server holds nothing of the request any more
Deliver(r) ==
  /\ reqs[r].pc = "done"
  /\ reqs' = [reqs EXCEPT ![r] = [IdleReq EXCEPT !.pc = "delivered"]]
  /\ jar' = IF "Set-Cookie" \in DOMAIN reqs[r].headers
            THEN Str(CookieValue(reqs[r].headers["Set-Cookie"]))
            ELSE jar
  /\ UNCHANGED <<concurrent, variant, now, bucket, uploads, yoloCalls, sessions, encIn, encOut, fnIn, fnOut>>

\* the framework answers a request whose POST threw with a 500
Reject(r) ==
  /\ reqs[r].pc = "fault"
  /\ reqs' = [reqs EXCEPT ![r] = [IdleReq EXCEPT !.pc = "failed"]]
  /\ UNCHANGED <<concurrent, variant, now, jar, bucket, uploads, yoloCalls, sessions, encIn, encOut, fnIn, fnOut>>

\* a millisecond passes
Tick ==
  /\ now < StartMs + MaxTicks
  /\ now' = now + 1
  /\ UNCHANGED <<concurrent, variant, jar, reqs, bucket, uploads, yoloCalls, sessions, encIn, encOut, fnIn, fnOut>>

Next ==
  \/ \E r \in ReqIds : Send(r)
  \/ \E r \in ReqIds : Receive(r)
  \/ \E r \in ReqIds : FetchSettles(r)
  \/ \E r \in ReqIds : BodySettles(r)
  \/ \E r \in ReqIds : PutSettles(r)
  \/ \E r \in ReqIds : PredictSettles(r)
  \/ \E r \in ReqIds : TextSettles(r)
  \/ \E r \in ReqIds : JsonSettles(r)
  \/ \E r \in ReqIds : Deliver(r)
  \/ \E r \in ReqIds : Reject(r)
  \/ Tick

Spec == Init /\ [][Next]_vars

SpecConc == InitConc /\ [][Next]_vars

(***************************************************************************)
(* The stream encoder on its own, over every short message.                *)
(***************************************************************************)
\* the code units of the messages given to the encoder
EncAlphabet == { "a", "\n", "\"", "\\", "U+D83D", "U+DD0D" }

EncMessages == UNION { [1..n -> EncAlphabet] : n \in 0..MaxLen }

InitEnc ==
  /\ concurrent = FALSE
  /\ variant = "payload"
  /\ now = StartMs
  /\ jar = Undefined
  /\ reqs = [r \in ReqIds |-> IdleReq]
  /\ bucket = <<>>
  /\ uploads = {}
  /\ yoloCalls = {}
  /\ sessions = {}
  /\ encIn \in EncMessages
  /\ encOut = <<>>
  /\ fnIn = <<>>
  /\ fnOut = <<>>

\* start(controller) runs on the message
Encode ==
  /\ encOut = <<>>
  /\ encOut' = StreamChunks(encIn)
  /\ UNCHANGED <<concurrent, variant, now, jar, reqs, bucket, uploads, yoloCalls, sessions, encIn, fnIn, fnOut>>

NextEnc == Encode

SpecEnc == InitEnc /\ [][NextEnc]_vars

(***************************************************************************)
(* What the readers of the handler's output do.  These definitions are     *)
(* used to state the properties below; the handler does not run them.      *)
(***************************************************************************)
\* the code unit a JSON escape that starts at s[j] stands for, and its length
JsonUnescape(s, j) ==
  LET c == s[j + 1] IN
  CASE c = "\"" -> [unit |-> "\"", len |-> 2]
    [] c = "\\" -> [unit |-> "\\", len |-> 2]
    [] c = "n" -> [unit |-> "\n", len |-> 2]
    [] c = "r" -> [unit |-> "\r", len |-> 2]
    [] c = "t" -> [unit |-> "\t", len |-> 2]
    [] c = "u" /\ SubSeq(s, j + 2, j + 5) = <<"d", "8", "3", "d">> -> [unit |-> "U+D83D", len |-> 6]
    [] c = "u" /\ SubSeq(s, j + 2, j + 5) = <<"d", "d", "0", "d">> -> [unit |-> "U+DD0D", len |-> 6]

RECURSIVE JsonUnquoteFrom(_, _)
JsonUnquoteFrom(s, i) ==
  LET esc == { j \in i..Len(s) : s[j] = "\\" } IN
  IF esc = {} THEN SubSeq(s, i, Len(s))
  ELSE LET j == Least(esc)
           u == JsonUnescape(s, j)
       IN  SubSeq(s, i, j - 1) \o <<u.unit>> \o JsonUnquoteFrom(s, j + u.len)

\* JSON.parse of the JSON text of a string
JsonParseString(json) == JsonUnquoteFrom(SubSeq(json, 2, Len(json) - 1), 1)

\* the tag of a frame: the text before its first colon, with the colon
FrameTag(frame) == SubSeq(frame, 1, 2)

\* the JSON text a frame carries, between its tag and its closing newline
FramePayload(frame) == SubSeq(frame, 3, Len(frame) - 1)

\* the decoded payloads of the 0: frames of a stream, in order
ContentPayloads(stream) ==
  LET zero == { i \in 1..Len(stream) : FrameTag(stream[i]) = <<"0", ":">> }
  IN  [k \in 1..Cardinality(zero) |->
         JsonParseString(FramePayload(stream[
           CHOOSE i \in zero : Cardinality({ j \in zero : j <= i }) = k]))]

\* the number of line breaks of a string
LineBreaks(s) == Cardinality({ i \in 1..Len(s) : s[i] = "\n" })

RECURSIVE UriDecodeFrom(_, _)
UriDecodeFrom(s, i) ==
  LET pct == { j \in i..Len(s) : s[j] = "%" } IN
  IF pct = {} THEN SubSeq(s, i, Len(s))
  ELSE LET j == Least(pct)
           hi == (CHOOSE k \in 1..16 : HexDigits[k] = s[j + 1]) - 1
           lo == (CHOOSE k \in 1..16 : HexDigits[k] = s[j + 2]) - 1
       IN  SubSeq(s, i, j - 1) \o <<Ascii[hi * 16 + lo - 31]>> \o UriDecodeFrom(s, j + 3)

\* decodeURIComponent(s) of an encoded ASCII string
decodeURIComponent(s) == UriDecodeFrom(s, 1)

\* the decoded value of a query parameter of a URL
QueryParam(url, name) ==
  LET at == Least({ i \in 1..Len(url) :
                      url[i] \in {"?", "&"} /\ OccursAt(url, name \o <<"=">>, i + 1) })
      from == at + Len(name) + 2
      amp == { j \in from..Len(url) : url[j] = "&" }
      to == IF amp = {} THEN Len(url) ELSE Least(amp) - 1
  IN  decodeURIComponent(SubSeq(url, from, to))

\* String.prototype.endsWith
EndsWith(s, p) == Len(p) <= Len(s) /\ SubSeq(s, Len(s) - Len(p) + 1, Len(s)) = p

(***************************************************************************)
(* The properties.                                                         *)
(***************************************************************************)
\* C1: whatever the request, POST does not throw: no fault passes the request
\* boundary, and every request that is answered has a closed stream.
C1_NoFaultPastTheBoundary ==
  \A r \in ReqIds :
    /\ reqs[r].pc # "fault"
    /\ reqs[r].pc = "done" => reqs[r].closed

\* C2: the stream of every Response is one or more 0: frames, then one e:
\* frame, then one d: frame, and is closed; a request that has no Response
\* yet has emitted nothing.
C2_FrameOrder ==
  \A r \in ReqIds :
    LET s == reqs[r].stream
        n == Len(s)
    IN  IF reqs[r].pc = "done"
        THEN /\ n >= 3
             /\ \A i \in 1..(n - 2) : FrameTag(s[i]) = <<"0", ":">>
             /\ FrameTag(s[n - 1]) = <<"e", ":">>
             /\ FrameTag(s[n]) = <<"d", ":">>
             /\ \A i \in 1..n : s[i][Len(s[i])] = "\n"
             /\ reqs[r].closed
        ELSE s = <<>> /\ ~reqs[r].closed

\* C2, reached: a Response of several content frames
C2_Witness ==
  \E r \in ReqIds : reqs[r].pc = "done" /\ Len(reqs[r].stream) >= 5

\* C3: the decoded payloads of the 0: frames, joined, are the message; each
\* but the last ends with a line break and holds no other; and there is one
\* more 0: frame than the message has line breaks.
C3_RoundTrip ==
  encOut # <<>> =>
    LET p == ContentPayloads(encOut)
    IN  /\ Concat(p) = encIn
        /\ Len(p) = LineBreaks(encIn) + 1
        /\ Len(encOut) = Len(p) + 2
        /\ \A i \in 1..(Len(p) - 1) :
             /\ Len(p[i]) >= 1
             /\ p[i][Len(p[i])] = "\n"
             /\ LineBreaks(p[i]) = 1

\* C3, reached: a message with an empty line that ends in a line break
C3_Witness == encOut # <<>> /\ encIn = <<"a", "\n", "\n">> /\ Len(encOut) = 5

\* whether POST holds request r: it has started and has not been answered
Active(r) == reqs[r].pc \notin {"idle", "sent", "delivered", "failed"}

\* C4: the detection service is called only by a request whose storage write
\* has succeeded, with the key that request wrote and the session id that key
\* starts with, and at most once; a request whose write failed or has not
\* settled has not called it.
C4_DetectAfterUpload ==
  /\ \A c \in yoloCalls :
       \E u \in uploads :
         /\ u.by = c.by
         /\ u.key \in DOMAIN bucket
         /\ QueryParam(c.url, <<"i", "m", "g">>) = u.key
         /\ StartsWith(u.key, QueryParam(c.url, <<"c", "h", "a", "t", "_", "i", "d">>) \o <<"/", "o", "r", "i", "g", "i", "n", "a", "l", "/">>)
  /\ \A r \in ReqIds :
       LET q == reqs[r] IN
       Active(r) =>
         /\ q.calls = (IF q.stored THEN 1 ELSE 0)
         /\ Cardinality({ c \in yoloCalls : c.by = r }) = q.calls
         /\ q.stored =>
              /\ q.pc \notin {"awaitFetch", "awaitBody", "awaitS3"}
              /\ [by |-> r, key |-> q.key] \in uploads
              /\ \E c \in yoloCalls :
                   /\ c.by = r
                   /\ QueryParam(c.url, <<"i", "m", "g">>) = q.key
                   /\ QueryParam(c.url, <<"c", "h", "a", "t", "_", "i", "d">>) = q.chatId.v

\* C4, reached: a request has stored its image and called the detection
\* service, after a request whose storage write failed
C4_Witness ==
  /\ \E r \in ReqIds : reqs[r].pc = "awaitYolo" /\ reqs[r].calls = 1 /\ reqs[r].stored
  /\ \E r \in ReqIds : reqs[r].pc = "delivered"
  /\ Cardinality(yoloCalls) = 1

\* C5: the requests of the conversation all resolve one session id.
C5_OneSessionPerConversation == Cardinality(sessions) <= 1

\* whether a session id has the form of a newly made folder id: the date of
\* one of the model's two days, a dash, and the first block of a UUID
IsNewFolderId(id) ==
  /\ Len(id) = 19
  /\ SubSeq(id, 1, 10) \in { <<"1", "9", "7", "0", "-", "0", "1", "-", "0", "1">>, <<"1", "9", "7", "0", "-", "0", "1", "-", "0", "2">> }
  /\ id[11] = "-"
  /\ SubSeq(id, 12, 19) \in Rands

\* whether POST has resolved the session id of request r and not yet
\* been answered
Resolving(r) == Active(r) /\ reqs[r].pc # "fault"

\* C6: in the cookie-addressed handler a request that carries a non-empty
\* chatFolderId cookie uses its value as the session id and its Response sets
\* no cookie; a request without one makes a new id <date>-<random>, uses it
\* in its object key, and its Response sets it for 90 days, Path=/ and
\* SameSite=Lax, whatever the outcome of the pipeline.
C6_TokenReuse ==
  variant = "cookie" =>
    \A r \in ReqIds :
      LET q == reqs[r] IN
      Resolving(r) =>
        /\ IF q.cookie.t = "string" /\ q.cookie.v # <<>>
           THEN /\ q.chatId = q.cookie
                /\ q.pc = "done" => "Set-Cookie" \notin DOMAIN q.headers
           ELSE /\ IsNewFolderId(q.chatId.v)
                /\ q.pc = "done" =>
                     /\ "Set-Cookie" \in DOMAIN q.headers
                     /\ q.headers["Set-Cookie"] =
                          <<"c", "h", "a", "t", "F", "o", "l", "d", "e", "r", "I", "d", "=">> \o q.chatId.v
                            \o <<";", " ", "P", "a", "t", "h", "=", "/", ";", " ", "M", "a", "x", "-", "A", "g", "e", "=", "7", "7", "7", "6", "0", "0", "0", ";", " ", "S", "a", "m", "e", "S", "i", "t", "e", "=", "L", "a", "x">>
        /\ q.puts >= 1 => StartsWith(q.key, q.chatId.v \o <<"/", "o", "r", "i", "g", "i", "n", "a", "l", "/">>)

\* C6, reached: a request carries the id an earlier Response set, stores
\* its image under it and is answered without a cookie
C6_Witness ==
  /\ variant = "cookie"
  /\ \E r \in ReqIds :
       /\ reqs[r].pc = "done"
       /\ reqs[r].stored
       /\ reqs[r].cookie.t = "string"
       /\ IsNewFolderId(reqs[r].cookie.v)
       /\ reqs[r].chatId = reqs[r].cookie
       /\ "Set-Cookie" \notin DOMAIN reqs[r].headers

\* the error report of a failure message, written out
ErrorReportText(failure) ==
  <<"U+274C", " ", "*", "*", "O", "b", "j", "e", "c", "t", " ", "D", "e", "t", "e", "c", "t", "i", "o", "n", " ", "E", "r", "r", "o", "r", "*", "*", "\n", "\n", "S", "o", "r", "r", "y", ",", " ", "I", " ", "e", "n", "c", "o", "u", "n", "t", "e", "r", "e", "d", " ", "a", "n", " ", "e", "r", "r", "o", "r", " ", "w", "h", "i", "l", "e", " ", "p", "r", "o", "c", "e", "s", "s", "i", "n", "g", " ", "y", "o", "u", "r", " ", "i", "m", "a", "g", "e", ":", " ">>
    \o failure
    \o <<"\n", "\n", "P", "l", "e", "a", "s", "e", " ", "m", "a", "k", "e", " ", "s", "u", "r", "e", " ", "t", "h", "e", " ", "o", "b", "j", "e", "c", "t", " ", "d", "e", "t", "e", "c", "t", "i", "o", "n", " ", "s", "e", "r", "v", "i", "c", "e", " ", "i", "s", " ", "r", "e", "a", "c", "h", "a", "b", "l", "e", " ", "a", "t", " ", "h", "t", "t", "p", ":", "/", "/">>
    \o YOLO.v \o <<".">>

\* C7: a request with an image that is answered without a detection result
\* (its image could not be resolved, its storage write failed, or its
\* detection call failed) is answered with the error report of that failure's
\* message and the hint with the address of the detection service; a
\* non-success detection response gives its status and text in that message.
C7_FailureGivesErrorReport ==
  \A r \in ReqIds :
    LET q == reqs[r] IN
    (q.pc = "done" /\ q.hasImages /\ q.result = <<>>) =>
      /\ q.caught # <<>>
      /\ q.message = ErrorReportText(q.caught[1].message)
      /\ EndsWith(q.message, <<"r", "e", "a", "c", "h", "a", "b", "l", "e", " ", "a", "t", " ", "h", "t", "t", "p", ":", "/", "/", "y", "o", "l", "o", ":", "8", "0", "8", "0", ".">>)
      /\ (q.puts = 1 /\ ~q.stored) => q.caught[1].message = <<"A", "c", "c", "e", "s", "s", " ", "D", "e", "n", "i", "e", "d">>
      /\ q.status = 500 =>
           q.caught[1].message \in
             { <<"P", "r", "e", "d", "i", "c", "t", "i", "o", "n", " ", "A", "P", "I", " ", "e", "r", "r", "o", "r", ":", " ", "5", "0", "0", " ", "o", "o", "p", "s">>, <<"P", "r", "e", "d", "i", "c", "t", "i", "o", "n", " ", "A", "P", "I", " ", "e", "r", "r", "o", "r", ":", " ", "5", "0", "0", " ">> }
      /\ q.closed

\* C7, reached: a storage failure answered with the error report
C7_Witness ==
  \E r \in ReqIds :
    /\ reqs[r].pc = "done"
    /\ reqs[r].puts = 1
    /\ ~reqs[r].stored
    /\ Includes(reqs[r].message, <<"h", "t", "t", "p", ":", "/", "/", "y", "o", "l", "o", ":", "8", "0", "8", "0">>)

\* whether a first image is a string of no supported form
Unsupported(imageUrl) ==
  /\ imageUrl.t = "string"
  /\ ~StartsWith(imageUrl.v, <<"d", "a", "t", "a", ":">>)
  /\ ~StartsWith(imageUrl.v, <<"h", "t", "t", "p", ":", "/", "/">>)
  /\ ~StartsWith(imageUrl.v, <<"h", "t", "t", "p", "s", ":", "/", "/">>)

\* C8: a request whose first image is an unsupported reference string is
\* answered with the error report of the unsupported-source message, and
\* fetches nothing, stores nothing and calls no detection.
C8_UnsupportedSource ==
  \A r \in ReqIds :
    LET q == reqs[r] IN
    (Active(r) /\ q.hasImages /\ Unsupported(q.imageUrl)) =>
      /\ q.pc = "done"
      /\ q.message =
           ErrorReportText(<<"U", "n", "s", "u", "p", "p", "o", "r", "t", "e", "d", " ", "i", "m", "a", "g", "e", " ", "s", "o", "u", "r", "c", "e", ".", " ", "U", "s", "e", " ", "a", " ", "d", "a", "t", "a", " ", "U", "R", "L", " ", "o", "r", " ", "h", "t", "t", "p", "(", "s", ")", " ", "U", "R", "L", ".">>)
      /\ q.fetches = 0 /\ q.puts = 0 /\ q.calls = 0
      /\ \A u \in uploads : u.by # r
      /\ \A c \in yoloCalls : c.by # r

\* C8, reached: an ftp reference answered with the error report
C8_Witness ==
  \E r \in ReqIds :
    /\ reqs[r].pc = "done"
    /\ reqs[r].imageUrl = Str(FtpUrl)
    /\ Includes(reqs[r].message, <<"U", "n", "s", "u", "p", "p", "o", "r", "t", "e", "d", " ", "i", "m", "a", "g", "e", " ", "s", "o", "u", "r", "c", "e">>)

\* the success report of the full detection result, written out
FullResultText ==
  <<"U+D83D", "U+DD0D", " ", "*", "*", "O", "b", "j", "e", "c", "t", " ", "D", "e", "t", "e", "c", "t", "i", "o", "n", " ", "R", "e", "s", "u", "l", "t", "s", "*", "*", "\n", "\n", "*", "*", "D", "e", "t", "e", "c", "t", "i", "o", "n", " ", "C", "o", "u", "n", "t", ":", "*", "*", " ", "2", "\n", "*", "*", "D", "e", "t", "e", "c", "t", "e", "d", " ", "O", "b", "j", "e", "c", "t", "s", ":", "*", "*", " ", "c", "a", "t", ",", " ", "d", "o", "g", "\n", "*", "*", "P", "r", "e", "d", "i", "c", "t", "i", "o", "n", " ", "I", "D", ":", "*", "*", " ", "a", "b", "c", "1", "2", "3", "\n", "\n", "I", "'", "v", "e", " ", "a", "n", "a", "l", "y", "z", "e", "d", " ", "y", "o", "u", "r", " ", "i", "m", "a", "g", "e", " ", "a", "n", "d", " ", "d", "e", "t", "e", "c", "t", "e", "d", " ", "2", " ", "o", "b", "j", "e", "c", "t", "(", "s", ")", ".", " ", "T", "h", "e", " ", "d", "e", "t", "e", "c", "t", "e", "d", " ", "o", "b", "j", "e", "c", "t", "s", " ", "i", "n", "c", "l", "u", "d", "e", ":", " ", "c", "a", "t", ",", " ", "d", "o", "g", ".">>

\* C9: a Response carries one message, which its 0: frames spell out, and
\* which is the prompt (no image), the whole error report (something was
\* caught) or the whole success report; the success report is given only
\* when the image was resolved and stored and the detection answered with a
\* result that has its labels, and a result without them gives the error
\* report.
C9_OneWholeMessage ==
  \A r \in ReqIds :
    LET q == reqs[r] IN
    /\ q.pc = "done" =>
         /\ Concat(ContentPayloads(q.stream)) = q.message
         /\ \/ /\ ~q.hasImages
               /\ q.caught = <<>> /\ q.result = <<>>
               /\ q.message = <<"P", "l", "e", "a", "s", "e", " ", "p", "r", "o", "v", "i", "d", "e", " ", "a", "n", " ", "i", "m", "a", "g", "e", " ", "f", "o", "r", " ", "o", "b", "j", "e", "c", "t", " ", "d", "e", "t", "e", "c", "t", "i", "o", "n", ".">>
            \/ /\ q.hasImages
               /\ q.caught # <<>>
               /\ q.message = ErrorReportText(q.caught[1].message)
            \/ /\ q.hasImages
               /\ q.caught = <<>>
               /\ q.result = <<FullResult>>
               /\ q.message = FullResultText
               /\ q.puts = 1 /\ q.stored /\ q.calls = 1 /\ q.status = 200
               /\ q.fetches = (IF StartsWith(q.imageUrl.v, <<"d", "a", "t", "a", ":">>) THEN 0 ELSE 1)
         /\ (q.result # <<>> /\ Field(q.result[1], "labels").t # "array") => q.caught # <<>>
    /\ (Active(r) /\ q.pc \notin {"done", "fault"}) =>
         q.message = <<"P", "l", "e", "a", "s", "e", " ", "p", "r", "o", "v", "i", "d", "e", " ", "a", "n", " ", "i", "m", "a", "g", "e", " ", "f", "o", "r", " ", "o", "b", "j", "e", "c", "t", " ", "d", "e", "t", "e", "c", "t", "i", "o", "n", ".">>

\* C9, reached: a detection result without labels answered with the error
\* report
C9_Witness ==
  \E r \in ReqIds :
    /\ reqs[r].pc = "done"
    /\ reqs[r].result # <<>>
    /\ reqs[r].result[1].t = "object"
    /\ reqs[r].caught # <<>>
    /\ StartsWith(reqs[r].message, <<"U+274C", " ", "*", "*", "O", "b", "j", "e", "c", "t", " ", "D", "e", "t", "e", "c", "t", "i", "o", "n", " ", "E", "r", "r", "o", "r", "*", "*">>)

\* C10: no two uploads write the same key.
C10_UniqueKeys ==
  \A u1 \in uploads : \A u2 \in uploads : u1.by # u2.by => u1.key # u2.key

(***************************************************************************)
(* The functions of the handler called on their own.                       *)
(***************************************************************************)
\* the handler at rest, while a function is called on its own
AtRest ==
  /\ concurrent = FALSE
  /\ now = StartMs
  /\ jar = Undefined
  /\ reqs = [r \in ReqIds |-> IdleReq]
  /\ bucket = <<>>
  /\ uploads = {}
  /\ yoloCalls = {}
  /\ sessions = {}
  /\ encIn = <<>>
  /\ encOut = <<>>

\* the pieces content types are made of
CtWords == { <<"i", "m", "a", "g", "e", "/">>, <<"p", "n", "g">>, <<"w", "e", "b", "p">>, <<"j", "p", "e", "g">>, <<"g", "i", "f">>, <<"j", "p", "g">>, <<"P", "N", "G">>, <<";", " ", "q", "=", "1">> }

\* the content types given to guessExtFromContentType: none, and every
\* string of up to MaxLen pieces
ContentTypes ==
  { Null, Undefined }
  \cup { Str(Concat(w)) : w \in UNION { [1..n -> CtWords] : n \in 0..MaxLen } }

InitExt ==
  /\ AtRest
  /\ variant = "payload"
  /\ fnIn \in { <<ct>> : ct \in ContentTypes }
  /\ fnOut = <<>>

\* guessExtFromContentType(contentType) is called
GuessExt ==
  /\ fnOut = <<>>
  /\ fnOut' = <<guessExtFromContentType(fnIn[1])>>
  /\ UNCHANGED <<concurrent, variant, now, jar, reqs, bucket, uploads, yoloCalls, sessions, encIn, encOut, fnIn>>

NextExt == GuessExt

SpecExt == InitExt /\ [][NextExt]_vars

\* the table of the extension inference, in its order
ExtTable ==
  << [sub |-> <<"p", "n", "g">>, ext |-> <<"p", "n", "g">>],
     [sub |-> <<"w", "e", "b", "p">>, ext |-> <<"w", "e", "b", "p">>],
     [sub |-> <<"j", "p", "e", "g">>, ext |-> <<"j", "p", "g">>],
     [sub |-> <<"g", "i", "f">>, ext |-> <<"g", "i", "f">>] >>

\* C11: the extension inferred for a content type is that of the first entry
\* of the table png, webp, jpeg (jpg), gif whose substring the content type
\* holds, and jpg when it is absent, empty or holds none; image/png gives png
\* and image/jpeg gives jpg; the extension is one of png, webp, jpg, gif.
C11_ExtensionTable ==
  fnOut # <<>> =>
    LET ct == fnIn[1]
        ext == fnOut[1]
        hits == IF ct.t = "string"
                THEN { i \in 1..4 : Includes(ct.v, ExtTable[i].sub) }
                ELSE {}
    IN  /\ ext = (IF hits = {} THEN <<"j", "p", "g">> ELSE ExtTable[Least(hits)].ext)
        /\ ext \in { <<"p", "n", "g">>, <<"w", "e", "b", "p">>, <<"j", "p", "g">>, <<"g", "i", "f">> }
        /\ ct = Str(<<"i", "m", "a", "g", "e", "/", "p", "n", "g">>) => ext = <<"p", "n", "g">>
        /\ ct = Str(<<"i", "m", "a", "g", "e", "/", "j", "p", "e", "g">>) => ext = <<"j", "p", "g">>

\* C11, reached: a content type that holds gif before png is given png
C11_Witness ==
  /\ fnOut = << <<"p", "n", "g">> >>
  /\ fnIn = << Str(<<"i", "m", "a", "g", "e", "/", "g", "i", "f", "p", "n", "g">>) >>

(***************************************************************************)
(* POST called on its own, up to its first await or its end.               *)
(***************************************************************************)
\* a token an earlier Response has set
IssuedToken == <<"2", "0", "2", "5", "-", "0", "9", "-", "0", "4", "-", "0", "a", "1", "b", "2", "c", "3", "d">>

\* the chat_id of the conversation, where it differs from its chatId
ConvChatId2 == <<"c", "2">>

\* the chatFolderId cookie of the request
PostCookies == { Undefined, Str(<<>>), Str(IssuedToken) }

\* the data of the request
PostData ==
  { Undefined, Null }
  \cup { DataOf(a, b, i) :
           a \in { Undefined, Str(<<>>), Str(ConvChatId) },
           b \in { Undefined, Str(ConvChatId2) },
           i \in { Undefined, Arr(<<>>), BaseImages, Arr(<<Str(FtpUrl)>>) } }

\* the bodies of the request
PostBodies ==
  { [ok |-> FALSE, v |-> Undefined], [ok |-> TRUE, v |-> Null] }
  \cup { BodyOf(m, d) : m \in MessagesChoices, d \in PostData }

InitPost ==
  /\ AtRest
  /\ variant \in {"payload", "cookie"}
  /\ fnIn \in { <<cookie, body>> : cookie \in PostCookies, body \in PostBodies }
  /\ fnOut = <<>>

\* POST(req) is called and runs to its first await, its return or its throw
CallPost ==
  /\ fnOut = <<>>
  /\ \E shortRand \in Rands :
       fnOut' = <<POST([IdleReq EXCEPT !.pc = "sent", !.cookie = fnIn[1]],
                       fnIn[2], now, shortRand)>>
  /\ UNCHANGED <<concurrent, variant, now, jar, reqs, bucket, uploads, yoloCalls, sessions, encIn, encOut, fnIn>>

NextPost == CallPost

SpecPost == InitPost /\ [][NextPost]_vars

\* the data of the body POST was called with
PostedData == Field(fnIn[2].v, "data")

\* the messages of the body POST was called with
PostedMessages == Field(fnIn[2].v, "messages")

\* whether the body carries no image: no data, no data.images, or none in it
NoImage ==
  \/ PostedData.t \in {"undefined", "null"}
  \/ Field(PostedData, "images").t = "undefined"
  \/ Field(PostedData, "images") = Arr(<<>>)

\* C12: a request without an image, once POST is past reading its body, is
\* answered at once with the prompt message, which its stream spells out,
\* and has fetched nothing, stored nothing and called no detection.
C12_NoImageGivesPrompt ==
  (fnOut # <<>> /\ NoImage /\ fnOut[1].pc # "fault") =>
    LET q == fnOut[1] IN
    /\ q.pc = "done"
    /\ q.message = <<"P", "l", "e", "a", "s", "e", " ", "p", "r", "o", "v", "i", "d", "e", " ", "a", "n", " ", "i", "m", "a", "g", "e", " ", "f", "o", "r", " ", "o", "b", "j", "e", "c", "t", " ", "d", "e", "t", "e", "c", "t", "i", "o", "n", ".">>
    /\ Concat(ContentPayloads(q.stream)) = q.message
    /\ q.closed
    /\ q.caught = <<>>
    /\ q.fetches = 0 /\ q.puts = 0 /\ q.calls = 0

\* C12, reached: a request with an empty data.images answered with the prompt
C12_Witness ==
  /\ fnOut # <<>>
  /\ Field(PostedData, "images") = Arr(<<>>)
  /\ fnOut[1].pc = "done"
  /\ StartsWith(fnOut[1].message, <<"P", "l", "e", "a", "s", "e", " ", "p", "r", "o", "v", "i", "d", "e", " ", "a", "n", " ", "i", "m", "a", "g", "e">>)

\* the first of the candidates that is there, or none
FirstPresent(candidates) ==
  LET hits == { i \in 1..Len(candidates) : Truthy(candidates[i]) }
  IN  IF hits = {} THEN Undefined ELSE candidates[Least(hits)]

\* C13, as stated: the session id is the first that is there of the chat id
\* of the payload, the id of the first message and the persisted token, and
\* the default or a new id when none is.
C13_FullOrder ==
  (fnOut # <<>> /\ fnOut[1].chatId.t = "string") =>
    LET found == FirstPresent(<<Field(PostedData, "chatId"),
                                Field(PostedData, "chat_id"),
                                Field(First(PostedMessages), "id"),
                                fnIn[1]>>)
        chatId == fnOut[1].chatId.v
    IN  IF found.t = "undefined"
        THEN chatId = <<"a", "n", "o", "n", "y", "m", "o", "u", "s">> \/ IsNewFolderId(chatId)
        ELSE chatId = StringOf(found)

\* C13, as the handlers have it: the payload-addressed handler resolves the
\* first that is there of data.chatId, data.chat_id and messages[0].id, and
\* "anonymous" when none is, whatever the cookie; the cookie-addressed
\* handler resolves the cookie when it is there and a new id when it is
\* not, whatever the payload.
C13_OrderPerHandler ==
  (fnOut # <<>> /\ fnOut[1].chatId.t = "string") =>
    LET chatId == fnOut[1].chatId.v IN
    IF variant = "payload"
    THEN LET found == FirstPresent(<<Field(PostedData, "chatId"),
                                     Field(PostedData, "chat_id"),
                                     Field(First(PostedMessages), "id")>>)
         IN  chatId = (IF found.t = "undefined" THEN <<"a", "n", "o", "n", "y", "m", "o", "u", "s">> ELSE StringOf(found))
    ELSE LET found == FirstPresent(<<fnIn[1]>>)
         IN  IF found.t = "undefined" THEN IsNewFolderId(chatId)
             ELSE chatId = found.v

\* C13, reached: the payload-addressed handler is given an empty chatId, a
\* chat_id and a first message with an id, and resolves the chat_id
C13_Witness ==
  /\ fnOut # <<>>
  /\ variant = "payload"
  /\ Field(PostedData, "chatId") = Str(<<>>)
  /\ Field(PostedData, "chat_id") = Str(ConvChatId2)
  /\ Field(First(PostedMessages), "id") = Str(FirstMessageId)
  /\ fnOut[1].chatId = Str(ConvChatId2)

RECURSIVE SumOfLengths(_)
\* the sum of the lengths of a sequence of strings
SumOfLengths(ss) ==
  IF ss = <<>> THEN 0 ELSE Len(Head(ss)) + SumOfLengths(Tail(ss))

\* C14: in every Response the e: frame and the d: frame give, as
\* completionTokens, the number of code units of the message the 0: frames
\* carry, and 10 as promptTokens; the e: frame ends with isContinued false
\* and the d: frame has no isContinued.
C14_UsageCounts ==
  \A r \in ReqIds :
    reqs[r].pc = "done" =>
      LET s == reqs[r].stream
          n == SumOfLengths(ContentPayloads(s))
          e == s[Len(s) - 1]
          d == s[Len(s)]
      IN  /\ n = Len(reqs[r].message)
          /\ FrameTag(e) = <<"e", ":">>
          /\ FramePayload(e) =
               <<"{", "\"", "f", "i", "n", "i", "s", "h", "R", "e", "a", "s", "o", "n", "\"", ":", "\"", "s", "t", "o", "p", "\"", ",", "\"", "u", "s", "a", "g", "e", "\"", ":", "{", "\"", "p", "r", "o", "m", "p", "t", "T", "o", "k", "e", "n", "s", "\"", ":", "1", "0", ",", "\"", "c", "o", "m", "p", "l", "e", "t", "i", "o", "n", "T", "o", "k", "e", "n", "s", "\"", ":">>
                 \o ToDecimal(n) \o <<"}", ",", "\"", "i", "s", "C", "o", "n", "t", "i", "n", "u", "e", "d", "\"", ":", "f", "a", "l", "s", "e", "}">>
          /\ FrameTag(d) = <<"d", ":">>
          /\ FramePayload(d) =
               <<"{", "\"", "f", "i", "n", "i", "s", "h", "R", "e", "a", "s", "o", "n", "\"", ":", "\"", "s", "t", "o", "p", "\"", ",", "\"", "u", "s", "a", "g", "e", "\"", ":", "{", "\"", "p", "r", "o", "m", "p", "t", "T", "o", "k", "e", "n", "s", "\"", ":", "1", "0", ",", "\"", "c", "o", "m", "p", "l", "e", "t", "i", "o", "n", "T", "o", "k", "e", "n", "s", "\"", ":">>
                 \o ToDecimal(n) \o <<"}", "}">>
          /\ ~Includes(d, <<"i", "s", "C", "o", "n", "t", "i", "n", "u", "e", "d">>)

\* C14, reached: the success report, whose first character is two code
\* units, is counted as 204 of them
C14_Witness ==
  \E r \in ReqIds :
    /\ reqs[r].pc = "done"
    /\ reqs[r].message = FullResultText
    /\ Includes(reqs[r].stream[Len(reqs[r].stream)], <<"\"", "c", "o", "m", "p", "l", "e", "t", "i", "o", "n", "T", "o", "k", "e", "n", "s", "\"", ":", "2", "0", "4", "}">>)

(***************************************************************************)
(* parseDataUrl called on its own.                                         *)
(***************************************************************************)
\* the characters of the base64 data given to parseDataUrl: four of the
\* alphabet, and a space
DataChars == { "Q", "U", "I", "A", "/", " " }

\* the base64 data: up to MaxLen characters, and then no padding or some
DataTexts ==
  { body \o pad :
      body \in UNION { [1..n -> DataChars] : n \in 0..MaxLen },
      pad \in { <<>>, <<"=">>, <<"=", "=">> } }

\* the data URLs: with a media type or none, and with `;base64,`, without
\* `;base64` and without the comma
DataUrls ==
  { <<"d", "a", "t", "a", ":">> \o type \o sep \o data :
      type \in { <<"i", "m", "a", "g", "e", "/", "p", "n", "g">>, <<>> },
      sep \in { <<";", "b", "a", "s", "e", "6", "4", ",">>, <<",">>, <<";", "b", "a", "s", "e", "6", "4">> },
      data \in DataTexts }

InitDataUrl ==
  /\ AtRest
  /\ variant = "payload"
  /\ fnIn \in { <<dataUrl>> : dataUrl \in DataUrls }
  /\ fnOut = <<>>

\* parseDataUrl(imageUrl) is called
ParseDataUrl ==
  /\ fnOut = <<>>
  /\ fnOut' = <<parseDataUrl(fnIn[1])>>
  /\ UNCHANGED <<concurrent, variant, now, jar, reqs, bucket, uploads, yoloCalls, sessions, encIn, encOut, fnIn>>

NextDataUrl == ParseDataUrl

SpecDataUrl == InitDataUrl /\ [][NextDataUrl]_vars

RECURSIVE Base64Of(_)
\* the base64 text of a sequence of bytes, with its padding
Base64Of(bytes) ==
  IF bytes = <<>> THEN <<>>
  ELSE LET b1 == bytes[1]
           b2 == IF Len(bytes) >= 2 THEN bytes[2] ELSE 0
           b3 == IF Len(bytes) >= 3 THEN bytes[3] ELSE 0
           c1 == B64Chars[(b1 \div 4) + 1]
           c2 == B64Chars[((b1 % 4) * 16 + b2 \div 16) + 1]
           c3 == B64Chars[((b2 % 16) * 4 + b3 \div 64) + 1]
           c4 == B64Chars[(b3 % 64) + 1]
       IN  IF Len(bytes) = 1 THEN <<c1, c2, "=", "=">>
           ELSE IF Len(bytes) = 2 THEN <<c1, c2, c3, "=">>
           ELSE <<c1, c2, c3, c4>> \o Base64Of(SubSeq(bytes, 4, Len(bytes)))

\* where a reference of the form data:<type>;base64,<data> has its
\* `;base64,`: after a type of one character at least
ShapeCuts(ref) ==
  { i \in 7..Len(ref) : StartsWith(ref, <<"d", "a", "t", "a", ":">>) /\ OccursAt(ref, <<";", "b", "a", "s", "e", "6", "4", ",">>, i) }

\* C15: parseDataUrl of a reference of the form data:<type>;base64,<data>
\* gives bytes whose base64 text is <data>, and parseDataUrl of another
\* reference that starts with data: throws the error of a malformed inline
\* image.
C15_Base64RoundTrip ==
  fnOut # <<>> =>
    LET ref == fnIn[1]
        parsed == fnOut[1]
    IN  IF ShapeCuts(ref) # {}
        THEN /\ ~parsed.threw
             /\ Base64Of(parsed.buffer) = SubSeq(ref, Least(ShapeCuts(ref)) + 8, Len(ref))
        ELSE /\ parsed.threw
             /\ parsed.message = <<"U", "n", "s", "u", "p", "p", "o", "r", "t", "e", "d", " ", "d", "a", "t", "a", " ", "U", "R", "L", " ", "f", "o", "r", "m", "a", "t", ".">>

\* the number of `=` a text ends with
Padding(data) ==
  IF Len(data) >= 2 /\ data[Len(data)] = "=" /\ data[Len(data) - 1] = "=" THEN 2
  ELSE IF Len(data) >= 1 /\ data[Len(data)] = "=" THEN 1
  ELSE 0

\* whether a text is the base64 text of some bytes: groups of four
\* characters of the alphabet, the last one padded with `=` after
\* characters whose unused bits are zero
Canonical(data) ==
  LET n == Len(data)
      pads == Padding(data)
  IN  /\ n % 4 = 0
      /\ \A i \in 1..(n - pads) : \E k \in 1..64 : B64Chars[k] = data[i]
      /\ pads = 1 => B64Value(data[n - 1]) % 4 = 0
      /\ pads = 2 => B64Value(data[n - 2]) % 16 = 0

\* what parseDataUrl does give: the round trip exactly for the data that are
\* the base64 text of some bytes
C15_CanonicalRoundTrip ==
  (fnOut # <<>> /\ ShapeCuts(fnIn[1]) # {}) =>
    LET data == SubSeq(fnIn[1], Least(ShapeCuts(fnIn[1])) + 8, Len(fnIn[1]))
    IN  /\ ~fnOut[1].threw
        /\ (Base64Of(fnOut[1].buffer) = data) <=> Canonical(data)

\* the external operations request r has attempted: its fetches, its storage
\* writes, its detection calls, and those that reached the services
Attempts(r, rs, ups, yolos) ==
  <<rs[r].fetches, rs[r].puts, rs[r].calls,
    { u \in ups : u.by = r }, { c \in yolos : c.by = r }>>

\* C16: a request fetches its image at most once, writes it at most once
\* and calls the detection service at most once; the step that catches a
\* failure attempts nothing, and after it the request attempts nothing more:
\* it is answered, and then only delivered.
C16_NoRetry ==
  /\ [](\A r \in ReqIds :
          /\ reqs[r].fetches <= 1 /\ reqs[r].puts <= 1 /\ reqs[r].calls <= 1
          /\ Cardinality({ u \in uploads : u.by = r }) <= 1
          /\ Cardinality({ c \in yoloCalls : c.by = r }) <= 1
          /\ reqs[r].caught # <<>> => reqs[r].pc = "done")
  /\ [][\A r \in ReqIds :
          /\ reqs'[r].caught # <<>> =>
               Attempts(r, reqs', uploads', yoloCalls')
                 = Attempts(r, reqs, uploads, yoloCalls)
          /\ reqs[r].caught # <<>> =>
               \/ reqs'[r] = reqs[r]
               \/ reqs'[r] = [IdleReq EXCEPT !.pc = "delivered"]]_vars

\* C16, reached: a request that has fetched its image, stored it and called
\* the detection service, each once, is answered with the failure of the call
C16_Witness ==
  \E r \in ReqIds :
    /\ reqs[r].pc = "done"
    /\ reqs[r].caught # <<>>
    /\ reqs[r].fetches = 1 /\ reqs[r].puts = 1 /\ reqs[r].calls = 1
    /\ reqs[r].status = 500

\* the session id a key was written under: what stands before /original/
PrefixOf(key) ==
  SubSeq(key, 1, Least({ i \in 1..Len(key) : OccursAt(key, <<"/", "o", "r", "i", "g", "i", "n", "a", "l", "/">>, i) }) - 1)

\* C17: in the cookie-addressed handler, however the requests of the
\* conversation interleave, the objects they store are all under one session
\* id, and once every request is answered the cookie the client holds is
\* that id.
C17_OnePrefixUnderConcurrency ==
  variant = "cookie" =>
    LET prefixes == { PrefixOf(u.key) : u \in uploads } IN
    /\ Cardinality(prefixes) <= 1
    /\ (prefixes # {} /\ \A r \in ReqIds : reqs[r].pc \in {"delivered", "failed"}) =>
         jar \in { Str(p) : p \in prefixes }

====
